---------------------------- MODULE Spec2Model ----------------------------
(***************************************************************************)
(* A model of the bq769x0 battery-monitor driver (src/src/lib.rs): the     *)
(* SCD/OCD threshold codecs, the range reconciliation and the UV/OV        *)
(* encoding of init, the checksum-framed register transactions, and the    *)
(* session state machine, against a register device behind an I2C bus.     *)
(*                                                                         *)
(* Integers: TLC's integers are 32-bit signed, so u32 inputs are drawn     *)
(* from 0..2^31-1.  A u32 product is computed on 16-bit limbs, so that its *)
(* overflow and its wrapped value are those of the 32-bit machine.         *)
(***************************************************************************)
EXTENDS Integers, Sequences, FiniteSets, TLC

VARIABLES
    bq,     \* the session: the fields of struct BQ769x0
    regs,   \* the device's registers, by address
    call,   \* the operation called last (or, in the drawn specifications, called next) and its inputs
    ret,    \* what that operation returned: Ok, an Error, or an abort (panic)
    bus     \* the bus transactions that operation issued, in order

vars == <<bq, regs, call, ret, bus>>

(***************************************************************************)
(* Machine arithmetic                                                      *)
(***************************************************************************)

\* Rust's integer division truncates toward zero; TLA+'s \div floors.
TruncDiv(a, b) ==
    IF a >= 0 THEN a \div b ELSE -((-a) \div b)

\* a u8 taken from a wider unsigned value ("as u8"): the low 8 bits
AsU8(v) == v % 256

\* a u16 taken from a non-negative i32 ("as u16"): the low 16 bits
AsU16(v) == v % 65536

\* an i8 taken from a byte ("as i8"): two's complement
AsI8(b) == IF b >= 128 THEN b - 256 ELSE b

\* bit k of the byte a
Bit(a, k) == (a \div (2 ^ k)) % 2

\* a ^ b on u8
Xor8(a, b) ==
      ((Bit(a, 0) + Bit(b, 0)) % 2) + ((Bit(a, 1) + Bit(b, 1)) % 2) * 2
    + ((Bit(a, 2) + Bit(b, 2)) % 2) * 4 + ((Bit(a, 3) + Bit(b, 3)) % 2) * 8
    + ((Bit(a, 4) + Bit(b, 4)) % 2) * 16 + ((Bit(a, 5) + Bit(b, 5)) % 2) * 32
    + ((Bit(a, 6) + Bit(b, 6)) % 2) * 64 + ((Bit(a, 7) + Bit(b, 7)) % 2) * 128

\* a & b on u8
And8(a, b) ==
      (Bit(a, 0) * Bit(b, 0)) + (Bit(a, 1) * Bit(b, 1)) * 2
    + (Bit(a, 2) * Bit(b, 2)) * 4 + (Bit(a, 3) * Bit(b, 3)) * 8
    + (Bit(a, 4) * Bit(b, 4)) * 16 + (Bit(a, 5) * Bit(b, 5)) * 32
    + (Bit(a, 6) * Bit(b, 6)) * 64 + (Bit(a, 7) * Bit(b, 7)) * 128

\* a | b on u8
Or8(a, b) == a + b - And8(a, b)

\* The parts of the u32 product a * b, on 16-bit limbs (a, b in 0..2^31-1):
\* [lo, hi] are the low and high 16 bits of the product modulo 2^32, and ovf
\* says whether the product does not fit in 32 bits.
U32MulParts(a, b) ==
    LET ah == a \div 65536
        al == a % 65536
        bh == b \div 65536
        bl == b % 65536
        p0 == al * (bl % 256)
        p1 == al * (bl \div 256)
        loacc == (p1 % 256) * 256 + p0
        midA == ah * bl
        midB == al * bh
        hiacc == (p1 \div 256) + (loacc \div 65536) + (midA % 65536) + (midB % 65536)
    IN  [lo |-> loacc % 65536,
         hi |-> hiacc % 65536,
         ovf |-> (ah > 0 /\ bh > 0) \/ midA \div 65536 > 0 \/ midB \div 65536 > 0
                 \/ hiacc \div 65536 > 0]

\* whether threshold.0 * shunt.0 overflows u32 (a panic where overflow is checked)
U32MulOverflows(a, b) == U32MulParts(a, b).ovf

\* (a * b, wrapping) / 1000 on u32: long division of the two limbs
U32WrappingMulDiv1000(a, b) ==
    LET p == U32MulParts(a, b)
    IN  (p.hi \div 1000) * 65536 + (((p.hi % 1000) * 65536 + p.lo) \div 1000)

(***************************************************************************)
(* CRC-8, polynomial x^8 + x^2 + x + 1, initial value 0 (CRCu8::crc8)      *)
(***************************************************************************)

RECURSIVE CrcShift(_, _)
\* k shifts of the CRC register c
CrcShift(c, k) ==
    IF k = 0 THEN c
    ELSE CrcShift(IF c >= 128 THEN Xor8((2 * c) % 256, 7) ELSE 2 * c, k - 1)

\* the register after one more byte is digested
CrcTable[c \in 0..255] == CrcShift(c, 8)

RECURSIVE CrcDigest(_, _)
CrcDigest(c, bytes) ==
    IF bytes = <<>> THEN c
    ELSE CrcDigest(CrcTable[Xor8(c, Head(bytes))], Tail(bytes))

\* crc.reset(); crc.digest(bytes); crc.get_crc()
Crc8(bytes) == CrcDigest(0, bytes)

(***************************************************************************)
(* The SCD and OCD threshold codecs.  A threshold is its enum discriminant, *)
(* the millivolt value.                                                    *)
(***************************************************************************)

\* the value standing for a call that reached unreachable!()
Unreachable == -1

\* enum SCDThreshold
SCDThreshold == {22, 33, 44, 56, 67, 78, 89, 100, 111, 133, 155, 178, 200}

\* enum OCDThreshold
OCDThreshold == {8, 11, 14, 17, 19, 22, 25, 28, 31, 33, 36, 39, 42, 44, 47, 50,
                 56, 61, 67, 72, 78, 83, 89, 94, 100}

\* OCDSCDRange::bits
OCDSCDRange_bits(range) ==
    CASE range = "Lower" -> 0
      [] range = "Upper" -> 128
      [] OTHER -> Unreachable

\* SCDThreshold::range
SCDThreshold_range(t) ==
    IF t \in {44, 67, 89} THEN "Unknown"
    ELSE IF t \in {111, 133, 155, 178, 200} THEN "Upper"
    ELSE "Lower"

\* the match arms of SCDThreshold::bits, by range
SCDLowerBits == [t \in {22, 33, 44, 56, 67, 78, 89, 100} |->
    CASE t = 22 -> 0 [] t = 33 -> 1 [] t = 44 -> 2 [] t = 56 -> 3
      [] t = 67 -> 4 [] t = 78 -> 5 [] t = 89 -> 6 [] t = 100 -> 7]

SCDUpperBits == [t \in {44, 67, 89, 111, 133, 155, 178, 200} |->
    CASE t = 44 -> 0 [] t = 67 -> 1 [] t = 89 -> 2 [] t = 111 -> 3
      [] t = 133 -> 4 [] t = 155 -> 5 [] t = 178 -> 6 [] t = 200 -> 7]

\* SCDThreshold::bits
SCDThreshold_bits(t, range) ==
    CASE range = "Lower" -> (IF t \in DOMAIN SCDLowerBits THEN SCDLowerBits[t] ELSE 0)
      [] range = "Upper" -> (IF t \in DOMAIN SCDUpperBits THEN SCDUpperBits[t] ELSE 0)
      [] OTHER -> Unreachable

\* the array `thresholds` of SCDThreshold::from_mv
SCDFromMvTable == <<22, 33, 44, 56, 67, 78, 89, 100, 111, 133, 155, 178, 200>>

\* a from_mv loop that passes over an entry equal to the request
FirstAbove(thresholds, i, mv) ==
    IF \E j \in 1..Len(thresholds) : mv < thresholds[j]
    THEN thresholds[CHOOSE j \in 1..Len(thresholds) :
            mv < thresholds[j] /\ \A k \in 1..(j - 1) : ~(mv < thresholds[k])]
    ELSE thresholds[Len(thresholds)]

RECURSIVE FirstNotBelow(_, _, _)
\* for t in thresholds.iter() { if mv_threshold <= *t as u8 { return *t; } } unreachable!()
FirstNotBelow(thresholds, i, mv) ==
    IF i > Len(thresholds) THEN Unreachable
    ELSE IF mv <= AsU8(thresholds[i]) THEN thresholds[i]
    ELSE FirstNotBelow(thresholds, i + 1, mv)

\* SCDThreshold::from_mv (mv_threshold: u8)
SCDThreshold_from_mv(mv) ==
    IF mv < 22 THEN 22
    ELSE IF mv > 200 THEN 200
    ELSE FirstNotBelow(SCDFromMvTable, 1, mv)

\* SCDThreshold::from_current, the multiplication wrapping
SCDThreshold_from_current(threshold, shunt) ==
    SCDThreshold_from_mv(AsU8(U32WrappingMulDiv1000(threshold, shunt)))

\* OCDThreshold::range
OCDThreshold_range(t) ==
    IF t \in {17, 22, 28, 33, 39, 44, 50} THEN "Unknown"
    ELSE IF t \in {56, 61, 67, 72, 78, 83, 89, 94, 100} THEN "Upper"
    ELSE "Lower"

\* the match arms of OCDThreshold::bits, by range
OCDLowerBits == [t \in {8, 11, 14, 17, 19, 22, 25, 28, 31, 33, 36, 39, 42, 44, 47, 50} |->
    CASE t = 8 -> 0 [] t = 11 -> 1 [] t = 14 -> 2 [] t = 17 -> 3
      [] t = 19 -> 4 [] t = 22 -> 5 [] t = 25 -> 6 [] t = 28 -> 7
      [] t = 31 -> 8 [] t = 33 -> 9 [] t = 36 -> 10 [] t = 39 -> 11
      [] t = 42 -> 12 [] t = 44 -> 13 [] t = 47 -> 14 [] t = 50 -> 15]

OCDUpperBits == [t \in {17, 22, 28, 33, 39, 44, 50, 56, 61, 67, 72, 78, 83, 89, 94, 100} |->
    CASE t = 17 -> 0 [] t = 22 -> 1 [] t = 28 -> 2 [] t = 33 -> 3
      [] t = 39 -> 4 [] t = 44 -> 5 [] t = 50 -> 6 [] t = 56 -> 7
      [] t = 61 -> 8 [] t = 67 -> 9 [] t = 72 -> 10 [] t = 78 -> 11
      [] t = 83 -> 12 [] t = 89 -> 13 [] t = 94 -> 14 [] t = 100 -> 15]

\* OCDThreshold::bits
OCDThreshold_bits(t, range) ==
    CASE range = "Lower" -> (IF t \in DOMAIN OCDLowerBits THEN OCDLowerBits[t] ELSE 0)
      [] range = "Upper" -> (IF t \in DOMAIN OCDUpperBits THEN OCDUpperBits[t] ELSE 0)
      [] OTHER -> Unreachable

\* the array `thresholds` of OCDThreshold::from_mv
OCDFromMvTable == <<8, 11, 14, 17, 19, 22, 25, 28, 31, 33, 36, 39, 42, 44, 47, 50,
                    56, 61, 67, 72, 78, 83, 89, 94, 100>>

\* OCDThreshold::from_mv (mv_threshold: u8)
OCDThreshold_from_mv(mv) ==
    IF mv < 8 THEN 8
    ELSE IF mv > 100 THEN 100
    ELSE FirstNotBelow(OCDFromMvTable, 1, mv)

\* OCDThreshold::from_current, the multiplication wrapping
OCDThreshold_from_current(threshold, shunt) ==
    OCDThreshold_from_mv(AsU8(U32WrappingMulDiv1000(threshold, shunt)))

\* the delay selectors' bits(): the selector is its index in the enum
SCDDelay_bits(d) == d * 8
OCDDelay_bits(d) == d * 16
UVDelay_bits(d) == d * 64
OVDelay_bits(d) == d * 16

(***************************************************************************)
(* The ADC transfer function.  A MilliVolts is a u32: it is kept as the    *)
(* 32-bit pattern (a negative integer stands for the u32 2^32 + v), and    *)
(* ordered as the u32 it is.                                               *)
(***************************************************************************)

\* MilliVolts' derived ordering: a <= b on u32 patterns
U32Le(a, b) ==
    IF (a < 0) = (b < 0) THEN a <= b ELSE a >= 0

\* AdcTransferFunction::apply
AdcTransferFunction_apply(gain, offset, adc_reading) ==
    LET uv == adc_reading * gain + offset * 1000
    IN  TruncDiv(uv, 1000)

(***************************************************************************)
(* The device behind the bus: a register file.  A bus transaction either   *)
(* succeeds, or fails at the transport level; a failed one may or may not  *)
(* have moved its bytes before the transport reported the failure.         *)
(***************************************************************************)

\* the registers the model keeps; any other address reads as 0 and ignores writes
RegAddrs == {0, 1, 4, 5, 6, 7, 8, 9, 10, 11, 50, 51, 80, 81, 89} \cup (12..41)

RegAt(r, a) == IF a \in DOMAIN r THEN r[a] ELSE 0

\* DummyI2C::write_read: buffer[i] = regs[base + i]
DevRead(r, reg_address, n) == [i \in 1..n |-> RegAt(r, reg_address + i - 1)]

\* DummyI2C::write: regs[base + i] = bytes[i]
DevStore(r, reg_address, data) ==
    [a \in DOMAIN r |->
        IF a >= reg_address /\ a < reg_address + Len(data)
        THEN data[a - reg_address + 1] ELSE r[a]]

\* what a device in checksum mode answers to a read of 2n bytes: value, crc pairs,
\* the first crc over [(dev_address << 1) | 1, value0], the later ones over their value
DevReadCrc(r, dev_address, reg_address, n) ==
    [i \in 1..(2 * n) |->
        LET v == RegAt(r, reg_address + ((i + 1) \div 2) - 1)
        IN  IF i % 2 = 1 THEN v
            ELSE IF i = 2 THEN Crc8(<<Or8((dev_address * 2) % 256, 1), v>>)
            ELSE Crc8(<<v>>)]

Zeros(n) == [i \in 1..n |-> 0]

\* no byte of the answer is corrupted on the wire
NoFlip == [tx |-> 0, at |-> 0, mask |-> 0]

\* the answer as it arrives: byte flip.at of it (none when 0) has the bits of
\* flip.mask inverted
Corrupted(answer, flip) ==
    [i \in 1..Len(answer) |-> IF i = flip.at THEN Xor8(answer[i], flip.mask) ELSE answer[i]]

\* the buffer after i2c.write_read: the answer as it arrived, or the zeroed buffer left
\* untouched by a transaction that failed before the answer arrived
BufAfter(answer, t) ==
    IF t.ok \/ t.moved THEN Corrupted(answer, t.flip) ELSE Zeros(Len(answer))

\* the k-th bus transaction of a call under environment env
BusEnv(env, k) ==
    [ok |-> env.fail # k, moved |-> env.moved,
     flip |-> IF "flip" \in DOMAIN env /\ env.flip.tx = k THEN env.flip ELSE NoFlip]

(***************************************************************************)
(* The transaction codec.  Each operator returns the result, the data it   *)
(* stored in the caller's buffer (reads; <<>> when it stored nothing), the *)
(* device after it (writes) and the bus transactions issued.               *)
(***************************************************************************)

\* read_raw_nocrc
read_raw_nocrc(r, dev_address, reg_address, n, t) ==
    LET answer == BufAfter(DevRead(r, reg_address, n), t)
        tx == [op |-> "write_read", reg |-> reg_address, bytes |-> <<reg_address>>,
               len |-> n, ok |-> t.ok]
    IN  IF t.ok THEN [res |-> "Ok", data |-> answer, bus |-> <<tx>>]
        ELSE [res |-> "I2CError", data |-> IF t.moved THEN answer ELSE <<>>, bus |-> <<tx>>]

RECURSIVE CrcPairsFrom(_, _, _)
\* for i in (3..data.len()*2).step_by(2): crc(buf[i - 1]) == buf[i]  (0-based i)
CrcPairsFrom(buf, i, end) ==
    IF i >= end THEN TRUE
    ELSE IF Crc8(<<buf[i]>>) # buf[i + 1] THEN FALSE
    ELSE CrcPairsFrom(buf, i + 2, end)

\* a framed read that checks the first checksum only
read_raw_crc_first_pair(X, r, dev_address, reg_address, n, t) ==
    IF n > X * 2 THEN [res |-> "BufTooLarge", data |-> <<>>, bus |-> <<>>]
    ELSE IF n = 0 THEN [res |-> "Ok", data |-> <<>>, bus |-> <<>>]
    ELSE
        LET buf == BufAfter(DevReadCrc(r, dev_address, reg_address, n), t)
            tx == [op |-> "write_read", reg |-> reg_address, bytes |-> <<reg_address>>,
                   len |-> 2 * n, ok |-> t.ok]
        IN  IF Crc8(<<Or8((dev_address * 2) % 256, 1), buf[1]>>) # buf[2]
            THEN [res |-> "CRCMismatch", data |-> <<>>, bus |-> <<tx>>]
            ELSE IF t.ok
            THEN [res |-> "Ok", data |-> [i \in 1..n |-> buf[2 * i - 1]], bus |-> <<tx>>]
            ELSE [res |-> "I2CError", data |-> <<>>, bus |-> <<tx>>]

\* read_raw_crc
read_raw_crc(X, r, dev_address, reg_address, n, t) ==
    IF n > X * 2 THEN [res |-> "BufTooLarge", data |-> <<>>, bus |-> <<>>]
    ELSE IF n = 0 THEN [res |-> "Ok", data |-> <<>>, bus |-> <<>>]
    ELSE
        LET buf == BufAfter(DevReadCrc(r, dev_address, reg_address, n), t)
            tx == [op |-> "write_read", reg |-> reg_address, bytes |-> <<reg_address>>,
                   len |-> 2 * n, ok |-> t.ok]
        IN  IF Crc8(<<Or8((dev_address * 2) % 256, 1), buf[1]>>) # buf[2]
            THEN [res |-> "CRCMismatch", data |-> <<>>, bus |-> <<tx>>]
            ELSE IF n > 1 /\ ~CrcPairsFrom(buf, 3, 2 * n)
            THEN [res |-> "CRCMismatch", data |-> <<>>, bus |-> <<tx>>]
            ELSE IF t.ok
            THEN [res |-> "Ok", data |-> [i \in 1..n |-> buf[2 * i - 1]], bus |-> <<tx>>]
            ELSE [res |-> "I2CError", data |-> <<>>, bus |-> <<tx>>]

\* read_raw
read_raw(s, r, reg_address, n, t) ==
    IF s.use_crc THEN read_raw_crc(s.X, r, s.dev_address, reg_address, n, t)
    ELSE read_raw_nocrc(r, s.dev_address, reg_address, n, t)

\* write_raw_nocrc
write_raw_nocrc(r, dev_address, reg_address, data, t) ==
    IF Len(data) > 8 THEN [res |-> "BufTooLarge", regs |-> r, bus |-> <<>>]
    ELSE IF Len(data) = 0 THEN [res |-> "Ok", regs |-> r, bus |-> <<>>]
    ELSE
        LET buf == <<reg_address>> \o data
            tx == [op |-> "write", reg |-> reg_address, bytes |-> buf, len |-> 0, ok |-> t.ok]
        IN  [res |-> IF t.ok THEN "Ok" ELSE "I2CError",
             regs |-> IF t.ok \/ t.moved THEN DevStore(r, reg_address, data) ELSE r,
             bus |-> <<tx>>]

\* a framed write whose first checksum leaves out the address and the register
write_raw_crc_no_context(r, dev_address, reg_address, data, t) ==
    IF Len(data) > 8 THEN [res |-> "BufTooLarge", regs |-> r, bus |-> <<>>]
    ELSE IF Len(data) = 0 THEN [res |-> "Ok", regs |-> r, bus |-> <<>>]
    ELSE
        LET buf == <<reg_address>> \o
                   [i \in 1..(2 * Len(data)) |->
                        IF i % 2 = 1 THEN data[(i + 1) \div 2]
                        ELSE Crc8(<<data[i \div 2]>>)]
            tx == [op |-> "write", reg |-> reg_address, bytes |-> buf, len |-> 0, ok |-> t.ok]
        IN  [res |-> IF t.ok THEN "Ok" ELSE "I2CError",
             regs |-> IF t.ok \/ t.moved THEN DevStore(r, reg_address, data) ELSE r,
             bus |-> <<tx>>]

\* write_raw_crc
write_raw_crc(r, dev_address, reg_address, data, t) ==
    IF Len(data) > 8 THEN [res |-> "BufTooLarge", regs |-> r, bus |-> <<>>]
    ELSE IF Len(data) = 0 THEN [res |-> "Ok", regs |-> r, bus |-> <<>>]
    ELSE
        LET crc0 == Crc8(<<(dev_address * 2) % 256, reg_address, data[1]>>)
            buf == <<reg_address>> \o
                   [i \in 1..(2 * Len(data)) |->
                        IF i % 2 = 1 THEN data[(i + 1) \div 2]
                        ELSE IF i = 2 THEN crc0
                        ELSE Crc8(<<data[i \div 2]>>)]
            tx == [op |-> "write", reg |-> reg_address, bytes |-> buf, len |-> 0, ok |-> t.ok]
        IN  [res |-> IF t.ok THEN "Ok" ELSE "I2CError",
             regs |-> IF t.ok \/ t.moved THEN DevStore(r, reg_address, data) ELSE r,
             bus |-> <<tx>>]

\* write_raw
write_raw(s, r, reg_address, data, t) ==
    IF s.use_crc THEN write_raw_crc(r, s.dev_address, reg_address, data, t)
    ELSE write_raw_nocrc(r, s.dev_address, reg_address, data, t)

(***************************************************************************)
(* The session                                                             *)
(***************************************************************************)

BQ76920 == 5
BQ76930 == 10
BQ76940 == 15

None == [none |-> TRUE]

\* a constructor that accepts every cell count from 3 up to the channels of the variant
new_up_to_channels(X, dev_address, cell_count, use_crc) ==
    IF X \in {BQ76920, BQ76930, BQ76940} /\ cell_count >= 3 /\ cell_count <= X
    THEN [X |-> X,
          dev_address |-> dev_address,
          init_complete |-> FALSE,
          adc_gain |-> 0,
          adc_offset |-> 0,
          shunt |-> 0,
          cell_count |-> cell_count,
          cells |-> [i \in 0..(X - 1) |-> 0],
          use_crc |-> use_crc]
    ELSE None

\* BQ769x0::new
new(X, dev_address, cell_count, use_crc) ==
    IF X \in {BQ76920, BQ76930, BQ76940}
    THEN IF \/ (X = BQ76920 /\ (cell_count < 3 \/ cell_count > 5))
            \/ (X = BQ76930 /\ (cell_count < 6 \/ cell_count > 10))
            \/ (X = BQ76940 /\ (cell_count < 9 \/ cell_count > 15))
         THEN None
         ELSE [X |-> X,
               dev_address |-> dev_address,
               init_complete |-> FALSE,
               adc_gain |-> 0,
               adc_offset |-> 0,
               shunt |-> 0,
               cell_count |-> cell_count,
               cells |-> [i \in 0..(X - 1) |-> 0],
               use_crc |-> use_crc]
    ELSE None

\* is_initialized
is_initialized(s) == s.init_complete

\* what an operation hands back: the result, the session and the device after it,
\* and the bus transactions it issued
Outcome(kind, err, val, s, r, b) ==
    [kind |-> kind, err |-> err, val |-> val, bq |-> s, regs |-> r, bus |-> b]

\* read_adc_characteristics
read_adc_characteristics(s, r, env) ==
    LET r1 == read_raw(s, r, 80, 2, BusEnv(env, 1))
    IN  IF r1.res # "Ok" THEN [res |-> r1.res, bq |-> s, bus |-> r1.bus]
        ELSE
        LET r2 == read_raw(s, r, 89, 1, BusEnv(env, Len(r1.bus) + 1))
            b == r1.bus \o r2.bus
        IN  IF r2.res # "Ok" THEN [res |-> r2.res, bq |-> s, bus |-> b]
            ELSE [res |-> "Ok",
                  bq |-> [s EXCEPT
                     !.adc_gain = 365 + Or8(And8((r1.data[1] * 2) % 256, 24), r2.data[1] \div 32),
                     !.adc_offset = AsI8(r1.data[2])],
                  bus |-> b]

\* ov_voltage_range
ov_voltage_range(s) ==
    <<AdcTransferFunction_apply(s.adc_gain, s.adc_offset, 8200),
      AdcTransferFunction_apply(s.adc_gain, s.adc_offset, 12280)>>

\* a UV window whose upper end is the last 14-bit code of the UV span, not the last
\* one an 8-bit trip code reaches
uv_voltage_range_last_code(s) ==
    <<AdcTransferFunction_apply(s.adc_gain, s.adc_offset, 4096),
      AdcTransferFunction_apply(s.adc_gain, s.adc_offset, 8191)>>

\* uv_voltage_range
uv_voltage_range(s) ==
    <<AdcTransferFunction_apply(s.adc_gain, s.adc_offset, 4096),
      AdcTransferFunction_apply(s.adc_gain, s.adc_offset, 8176)>>

\* a comparison that sees the mismatch on one side only
RangeMismatch_one_sided(scd_range, ocd_range) ==
    scd_range = "Lower" /\ ocd_range = "Upper"

\* the comparison of the two ranges at the head of init
RangeMismatch(scd_range, ocd_range) ==
    \/ (scd_range = "Lower" /\ ocd_range = "Upper")
    \/ (scd_range = "Upper" /\ ocd_range = "Lower")

\* a reconciliation that takes the range of the SCD threshold alone
RangeToUse_scd_alone(scd_range, ocd_range) ==
    IF scd_range = "Unknown" THEN "Lower" ELSE scd_range

\* let range_to_use = ... in init
RangeToUse(scd_range, ocd_range) ==
    IF scd_range = "Unknown"
    THEN (IF ocd_range = "Unknown" THEN "Lower" ELSE ocd_range)
    ELSE IF ocd_range = "Unknown"
    THEN (IF scd_range = "Unknown" THEN "Lower" ELSE scd_range)
    ELSE ocd_range

\* the 8-bit OV/UV trip code of init: ((target - offset) * 1000 / gain) as u16 >> 4 & 0xff
TripBits(target, s) ==
    LET trip_full == TruncDiv((target - s.adc_offset) * 1000, s.adc_gain)
    IN  (AsU16(trip_full) \div 16) % 256

\* CalculatedValues before init built them
NoValues ==
    [ocdscd_range_used |-> "", scd_threshold |-> 0, ocd_threshold |-> 0,
     uv_threshold |-> 0, ov_threshold |-> 0]

\* The locals of init, kept with its result: stage is the statement init returned
\* from, scd_mv and ocd_mv are the thresholds from_current chose, calc the
\* CalculatedValues of a call that returned Ok.
InitLocals(stage, scd, ocd, range, ovl, uvl, ovb, uvb) ==
    [stage |-> stage, scd_mv |-> scd, ocd_mv |-> ocd, range_to_use |-> range,
     ov_limits |-> ovl, uv_limits |-> uvl, ov_bits |-> ovb, uv_bits |-> uvb,
     calc |-> NoValues]

NoLocals == InitLocals("", 0, 0, "", <<0, 0>>, <<0, 0>>, 0, 0)

\* init from self.write_raw(i2c, 0x06, &regs) on: the register write, the commit
\* and the coulomb-counter enable
init_commit(s, r, config, env, b0, loc, protect) ==
    LET w == write_raw(s, r, 6, protect, BusEnv(env, Len(b0) + 1))
        b1 == b0 \o w.bus
    IN  IF w.res # "Ok"
        THEN Outcome("Err", <<w.res>>, [loc EXCEPT !.stage = "write_protect"], s, w.regs, b1)
        ELSE
        LET s1 == [s EXCEPT !.shunt = config.shunt, !.init_complete = TRUE]
            rd == read_raw(s1, w.regs, 5, 1, BusEnv(env, Len(b1) + 1))
            b2 == b1 \o rd.bus
        IN  IF rd.res # "Ok"
            THEN Outcome("Err", <<rd.res>>, [loc EXCEPT !.stage = "read_sysctrl2"],
                         s1, w.regs, b2)
            ELSE
            LET w2 == write_raw(s1, w.regs, 5, <<Or8(rd.data[1], 64)>>,
                                BusEnv(env, Len(b2) + 1))
                b3 == b2 \o w2.bus
            IN  IF w2.res # "Ok"
                THEN Outcome("Err", <<w2.res>>, [loc EXCEPT !.stage = "write_sysctrl2"],
                             s1, w2.regs, b3)
                ELSE IF config.shunt = 0
                THEN Outcome("Abort", <<"DivideByZero">>, [loc EXCEPT !.stage = "values"],
                             s1, w2.regs, b3)
                ELSE Outcome("Ok", <<>>,
                        [loc EXCEPT !.stage = "done", !.calc =
                           [ocdscd_range_used |-> loc.range_to_use,
                            scd_threshold |-> (loc.scd_mv * 1000) \div config.shunt,
                            ocd_threshold |-> (loc.ocd_mv * 1000) \div config.shunt,
                            uv_threshold |-> AdcTransferFunction_apply(
                                s1.adc_gain, s1.adc_offset, 4096 + loc.uv_bits * 16),
                            ov_threshold |-> AdcTransferFunction_apply(
                                s1.adc_gain, s1.adc_offset, 8200 + loc.ov_bits * 16)]],
                        s1, w2.regs, b3)

\* an init that checks the UV target only after it has written the registers
init_validate_uv_late(s, r, config, env, b0, loc, protect3) ==
    LET ov_limits == ov_voltage_range(s)
        uv_limits == uv_voltage_range(s)
        ov_bits == TripBits(config.ov_threshold, s)
        uv_bits == TripBits(config.uv_threshold, s)
    IN  IF ~(U32Le(ov_limits[1], config.ov_threshold)
             /\ U32Le(config.ov_threshold, ov_limits[2]))
        THEN Outcome("Err", <<"OVThresholdUnobtainable", ov_limits[1], ov_limits[2]>>,
                     [loc EXCEPT !.stage = "ov_limits", !.ov_limits = ov_limits], s, r, b0)
        ELSE
        LET o == init_commit(s, r, config, env, b0,
                    [loc EXCEPT !.stage = "commit", !.ov_limits = ov_limits,
                                !.uv_limits = uv_limits, !.ov_bits = ov_bits,
                                !.uv_bits = uv_bits],
                    protect3 \o <<ov_bits, uv_bits, 25>>)
        IN  IF ~(U32Le(uv_limits[1], config.uv_threshold)
                 /\ U32Le(config.uv_threshold, uv_limits[2]))
            THEN Outcome("Err", <<"UVThresholdUnobtainable", uv_limits[1], uv_limits[2]>>,
                         [loc EXCEPT !.stage = "uv_limits", !.ov_limits = ov_limits,
                                     !.uv_limits = uv_limits, !.ov_bits = ov_bits],
                         o.bq, o.regs, o.bus)
            ELSE o

\* init from let ov_limits = ... to regs[5] = 0x19: the validation of the OV and UV
\* targets and their 8-bit codes
init_validate(s, r, config, env, b0, loc, protect3) ==
    LET ov_limits == ov_voltage_range(s)
        uv_limits == uv_voltage_range(s)
        ov_bits == TripBits(config.ov_threshold, s)
        uv_bits == TripBits(config.uv_threshold, s)
    IN  IF ~(U32Le(ov_limits[1], config.ov_threshold)
             /\ U32Le(config.ov_threshold, ov_limits[2]))
        THEN Outcome("Err", <<"OVThresholdUnobtainable", ov_limits[1], ov_limits[2]>>,
                     [loc EXCEPT !.stage = "ov_limits", !.ov_limits = ov_limits], s, r, b0)
        ELSE IF ~(U32Le(uv_limits[1], config.uv_threshold)
                  /\ U32Le(config.uv_threshold, uv_limits[2]))
        THEN Outcome("Err", <<"UVThresholdUnobtainable", uv_limits[1], uv_limits[2]>>,
                     [loc EXCEPT !.stage = "uv_limits", !.ov_limits = ov_limits,
                                 !.uv_limits = uv_limits, !.ov_bits = ov_bits], s, r, b0)
        ELSE init_commit(s, r, config, env, b0,
                [loc EXCEPT !.stage = "commit", !.ov_limits = ov_limits,
                            !.uv_limits = uv_limits, !.ov_bits = ov_bits,
                            !.uv_bits = uv_bits],
                protect3 \o <<ov_bits, uv_bits, 25>>)

\* init from SCDThreshold::from_current to regs[2]: the encoding of the SCD and OCD
\* thresholds and the reconciliation of their ranges
init_encode(s, r, config, env, b0) ==
    LET scd_threshold == SCDThreshold_from_current(config.scd_threshold, config.shunt)
        ocd_threshold == OCDThreshold_from_current(config.ocd_threshold, config.shunt)
        scd_range == SCDThreshold_range(scd_threshold)
        ocd_range == OCDThreshold_range(ocd_threshold)
        range_to_use == RangeToUse(scd_range, ocd_range)
        scd_bits == SCDThreshold_bits(scd_threshold, range_to_use)
        ocd_bits == OCDThreshold_bits(ocd_threshold, range_to_use)
        L(stage, range) ==
            InitLocals(stage, scd_threshold, ocd_threshold, range, <<0, 0>>, <<0, 0>>, 0, 0)
    IN  IF env.overflow_checks
           /\ (\/ U32MulOverflows(config.scd_threshold, config.shunt)
               \/ U32MulOverflows(config.ocd_threshold, config.shunt))
        THEN Outcome("Abort", <<"Overflow">>, [NoLocals EXCEPT !.stage = "from_current"],
                     s, r, b0)
        ELSE IF scd_threshold = Unreachable \/ ocd_threshold = Unreachable
        THEN Outcome("Abort", <<"Unreachable">>, L("from_mv", ""), s, r, b0)
        ELSE IF RangeMismatch(scd_range, ocd_range)
        THEN Outcome("Err", <<"OCDSCDRangeMismatch">>, L("ranges", ""), s, r, b0)
        ELSE IF \/ scd_bits = Unreachable \/ ocd_bits = Unreachable
                \/ OCDSCDRange_bits(range_to_use) = Unreachable
        THEN Outcome("Abort", <<"Unreachable">>, L("bits", range_to_use), s, r, b0)
        ELSE init_validate(s, r, config, env, b0, L("validate", range_to_use),
                <<Or8(Or8(OCDSCDRange_bits(range_to_use), SCDDelay_bits(config.scd_delay)),
                      scd_bits),
                  Or8(OCDDelay_bits(config.ocd_delay), ocd_bits),
                  Or8(UVDelay_bits(config.uv_delay), OVDelay_bits(config.ov_delay))>>)

\* BQ769x0::init
init_outcome(s, r, config, env) ==
    LET adc == read_adc_characteristics(s, r, env)
    IN  IF adc.res # "Ok"
        THEN Outcome("Err", <<adc.res>>,
                     [NoLocals EXCEPT !.stage = "read_adc_characteristics"], s, r, adc.bus)
        ELSE init_encode(adc.bq, r, config, env, adc.bus)

\* BQ769x0::current
current_outcome(s, r, env) ==
    LET rd == read_raw(s, r, 50, 2, BusEnv(env, 1))
    IN  IF rd.res # "Ok" THEN Outcome("Err", <<rd.res>>, 0, s, r, rd.bus)
        ELSE
        LET u == rd.data[1] * 256 + rd.data[2]
            cc == IF u >= 32768 THEN u - 65536 ELSE u
            vshunt == cc * 8440
        IN  IF s.shunt = 0 THEN Outcome("Abort", <<"DivideByZero">>, 0, s, r, rd.bus)
            ELSE Outcome("Ok", <<>>, TruncDiv(vshunt, s.shunt), s, r, rd.bus)

\* the overwrites of slots 2 and 3 alone
RemapCells_low_slots(X, cc, c0) ==
    IF cc \in {3, 6, 9} THEN [c0 EXCEPT ![2] = c0[4]]
    ELSE IF cc \in {4, 7, 8, 10, 11, 12} THEN [c0 EXCEPT ![3] = c0[4]]
    ELSE c0

\* the per-variant overwrites of cell_voltages, in the order of the code
RemapCells(X, cc, c0) ==
    LET c1 == IF cc \in {3, 6, 9} THEN [c0 EXCEPT ![2] = c0[4]]
              ELSE IF cc \in {4, 7, 8, 10, 11, 12} THEN [c0 EXCEPT ![3] = c0[4]]
              ELSE c0
        c2 == IF X \in {BQ76930, BQ76940} /\ cc \in {6, 7, 9, 10}
              THEN [c1 EXCEPT ![7] = c1[9]] ELSE c1
        c3 == IF X \in {BQ76930, BQ76940} /\ cc \in {8, 9, 11, 12, 13}
              THEN [c2 EXCEPT ![8] = c2[9]] ELSE c2
        c4 == IF X = BQ76940 /\ cc \in {9, 10, 11}
              THEN [c3 EXCEPT ![12] = c3[14]] ELSE c3
    IN  IF X = BQ76940 /\ cc \in {12, 13, 14}
        THEN [c4 EXCEPT ![13] = c4[14]] ELSE c4

\* BQ769x0::cell_voltages
cell_voltages_outcome(s, r, env) ==
    IF ~is_initialized(s) THEN Outcome("Err", <<"Uninitialized">>, <<>>, s, r, <<>>)
    ELSE
    LET rd == read_raw(s, r, 12, s.X * 2, BusEnv(env, 1))
    IN  IF rd.res # "Ok" THEN Outcome("Err", <<rd.res>>, <<>>, s, r, rd.bus)
        ELSE
        LET read == [i \in 0..(s.X - 1) |->
                        AdcTransferFunction_apply(s.adc_gain, s.adc_offset,
                            rd.data[i * 2 + 1] * 256 + rd.data[i * 2 + 2])]
            cells == RemapCells(s.X, s.cell_count, read)
        IN  Outcome("Ok", <<>>, [i \in 1..s.cell_count |-> cells[i - 1]],
                    [s EXCEPT !.cells = cells], r, rd.bus)

\* enum TemperatureSource
TemperatureSource == {"InternalDie", "ExternalThermistor"}

\* enum CoulombCounterMode
CoulombCounterMode == {"Disabled", "OneShot", "Continuous"}

\* BQ769x0::discharge
discharge_outcome(s, r, enable, env) ==
    LET rd == read_raw(s, r, 5, 1, BusEnv(env, 1))
    IN  IF rd.res # "Ok" THEN Outcome("Err", <<rd.res>>, 0, s, r, rd.bus)
        ELSE
        LET already_enabled == And8(rd.data[1], 2) # 0
            sys_ctrl2 == IF enable THEN Or8(rd.data[1], 2) ELSE And8(rd.data[1], 253)
            w == write_raw(s, r, 5, <<sys_ctrl2>>, BusEnv(env, 2))
        IN  IF enable = already_enabled THEN Outcome("Ok", <<>>, 0, s, r, rd.bus)
            ELSE IF w.res # "Ok" THEN Outcome("Err", <<w.res>>, 0, s, w.regs, rd.bus \o w.bus)
            ELSE Outcome("Ok", <<>>, 0, s, w.regs, rd.bus \o w.bus)

\* BQ769x0::charge
charge_outcome(s, r, enable, env) ==
    LET rd == read_raw(s, r, 5, 1, BusEnv(env, 1))
    IN  IF rd.res # "Ok" THEN Outcome("Err", <<rd.res>>, 0, s, r, rd.bus)
        ELSE
        LET already_enabled == And8(rd.data[1], 1) # 0
            sys_ctrl2 == IF enable THEN Or8(rd.data[1], 1) ELSE And8(rd.data[1], 254)
            w == write_raw(s, r, 5, <<sys_ctrl2>>, BusEnv(env, 2))
        IN  IF enable = already_enabled THEN Outcome("Ok", <<>>, 0, s, r, rd.bus)
            ELSE IF w.res # "Ok" THEN Outcome("Err", <<w.res>>, 0, s, w.regs, rd.bus \o w.bus)
            ELSE Outcome("Ok", <<>>, 0, s, w.regs, rd.bus \o w.bus)

\* BQ769x0::enable_adc
enable_adc_outcome(s, r, enable, env) ==
    LET rd == read_raw(s, r, 4, 1, BusEnv(env, 1))
    IN  IF rd.res # "Ok" THEN Outcome("Err", <<rd.res>>, 0, s, r, rd.bus)
        ELSE
        LET sysctrl1 == Or8(And8(rd.data[1], 239), IF enable THEN 16 ELSE 0)
            w == write_raw(s, r, 4, <<sysctrl1>>, BusEnv(env, 2))
        IN  IF w.res # "Ok" THEN Outcome("Err", <<w.res>>, 0, s, w.regs, rd.bus \o w.bus)
            ELSE Outcome("Ok", <<>>, 0, s, w.regs, rd.bus \o w.bus)

\* BQ769x0::set_temperature_source
set_temperature_source_outcome(s, r, source, env) ==
    LET rd == read_raw(s, r, 4, 1, BusEnv(env, 1))
    IN  IF rd.res # "Ok" THEN Outcome("Err", <<rd.res>>, 0, s, r, rd.bus)
        ELSE
        LET is_external == source = "ExternalThermistor"
            sysctrl1 == Or8(And8(rd.data[1], 247), IF is_external THEN 8 ELSE 0)
            w == write_raw(s, r, 4, <<sysctrl1>>, BusEnv(env, 2))
        IN  IF w.res # "Ok" THEN Outcome("Err", <<w.res>>, 0, s, w.regs, rd.bus \o w.bus)
            ELSE Outcome("Ok", <<>>, 0, s, w.regs, rd.bus \o w.bus)

\* BQ769x0::temperature_source, its k-th bus transaction being the read: the code
\* clears bit 3 of the byte read, then tests it
temperature_source_outcome(s, r, env, k) ==
    LET rd == read_raw(s, r, 4, 1, BusEnv(env, k))
    IN  IF rd.res # "Ok" THEN Outcome("Err", <<rd.res>>, "", s, r, rd.bus)
        ELSE
        LET sysctrl1 == And8(rd.data[1], 247)
            is_external == And8(sysctrl1, 8) # 0
        IN  Outcome("Ok", <<>>,
                    IF is_external THEN "ExternalThermistor" ELSE "InternalDie",
                    s, r, rd.bus)

\* BQ769x0::temperature
temperature_outcome(s, r, env) ==
    LET rd == read_raw(s, r, 44, 2, BusEnv(env, 1))
    IN  IF rd.res # "Ok"
        THEN Outcome("Err", <<rd.res>>, [source |-> "", vtsx |-> 0], s, r, rd.bus)
        ELSE
        LET ts == rd.data[1] * 256 + rd.data[2]
            vtsx == ts * 382
            src == temperature_source_outcome(s, r, env, 2)
        IN  Outcome(src.kind, src.err, [source |-> src.val, vtsx |-> vtsx],
                    s, r, rd.bus \o src.bus)

\* a coulomb_counter_mode that sets the bit of the mode without clearing the other
coulomb_counter_mode_keeping(s, r, mode, env) ==
    LET rd == read_raw(s, r, 5, 1, BusEnv(env, 1))
    IN  IF rd.res # "Ok" THEN Outcome("Err", <<rd.res>>, 0, s, r, rd.bus)
        ELSE
        LET sysctrl2 == CASE mode = "Disabled" -> And8(rd.data[1], 159)
                          [] mode = "OneShot" -> Or8(rd.data[1], 32)
                          [] mode = "Continuous" -> Or8(rd.data[1], 64)
            w == write_raw(s, r, 5, <<sysctrl2>>, BusEnv(env, 2))
        IN  IF w.res # "Ok" THEN Outcome("Err", <<w.res>>, 0, s, w.regs, rd.bus \o w.bus)
            ELSE Outcome("Ok", <<>>, 0, s, w.regs, rd.bus \o w.bus)

\* BQ769x0::coulomb_counter_mode
coulomb_counter_mode_outcome(s, r, mode, env) ==
    LET rd == read_raw(s, r, 5, 1, BusEnv(env, 1))
    IN  IF rd.res # "Ok" THEN Outcome("Err", <<rd.res>>, 0, s, r, rd.bus)
        ELSE
        LET cleared == And8(rd.data[1], 159)
            sysctrl2 == CASE mode = "Disabled" -> cleared
                          [] mode = "OneShot" -> Or8(cleared, 32)
                          [] mode = "Continuous" -> Or8(cleared, 64)
            w == write_raw(s, r, 5, <<sysctrl2>>, BusEnv(env, 2))
        IN  IF w.res # "Ok" THEN Outcome("Err", <<w.res>>, 0, s, w.regs, rd.bus \o w.bus)
            ELSE Outcome("Ok", <<>>, 0, s, w.regs, rd.bus \o w.bus)

(***************************************************************************)
(* Inputs                                                                  *)
(***************************************************************************)

\* struct Config; a delay selector is its index in its enum
Config(shunt, scd, ocd, uv, ov) ==
    [shunt |-> shunt, scd_delay |-> 3, scd_threshold |-> scd,
     ocd_delay |-> 7, ocd_threshold |-> ocd,
     uv_delay |-> 1, uv_threshold |-> uv, ov_delay |-> 1, ov_threshold |-> ov]

NoConfig == Config(0, 0, 0, 0, 0)

\* The bus and the build during one call: the fail-th bus transaction of the call
\* fails at the transport level (0: none does), having moved its bytes or not;
\* overflow_checks is whether the build panics on integer overflow (it wraps
\* otherwise).
Env(fail, moved, overflow_checks) ==
    [fail |-> fail, moved |-> moved, overflow_checks |-> overflow_checks]

Call(op, args, cfg, env) == [op |-> op, args |-> args, cfg |-> cfg, env |-> env]

\* trim register contents (0x50, 0x51, 0x59): the fixture of tests::DummyI2C::new
\* first, then the extremes of gain and offset
TrimList ==
    <<<<21, 43, 163>>, <<0, 128, 0>>, <<12, 127, 224>>, <<4, 0, 64>>, <<255, 255, 255>>>>

\* how many of the calibrations of TrimList the devices of Spec have
NTrims == 1

\* how many of them the devices of SpecDrawn have
NDrawnTrims == 4

Trims(n) == {TrimList[i] : i \in 1..(IF n < Len(TrimList) THEN n ELSE Len(TrimList))}

\* a device after power-up with the given trim: the control and protection registers
\* at 0, a coulomb-counter reading and a distinct reading in every cell channel
Device(trim) ==
    [a \in RegAddrs |->
        CASE a = 80 -> trim[1]
          [] a = 81 -> trim[2]
          [] a = 89 -> trim[3]
          [] a = 50 -> 1
          [] a = 51 -> 44
          [] a \in 12..41 -> (IF a % 2 = 0 THEN 24 + (a - 12) \div 2 ELSE 3 * a)
          [] OTHER -> 0]

\* the configurations init is called with in Spec: the one of tests::it_works, then
\* one per way out of init
ConfigList ==
    <<Config(667, 200, 100, 2000, 4175),
      Config(1000, 22, 100, 2000, 4175),
      Config(667, 200, 100, 2000, 5000),
      Config(667, 200, 100, 1000, 4175),
      Config(0, 200, 100, 2000, 4175),
      Config(1000, 44, 22, 2500, 4000),
      Config(70000, 70000, 70000, 2000, 4175),
      Config(1000, 300, 50, 2100, 4100)>>

\* how many of the configurations of ConfigList Spec calls init with
NConfigs == 5

Configs == {ConfigList[i] : i \in 1..(IF NConfigs < Len(ConfigList) THEN NConfigs
                                       ELSE Len(ConfigList))}

\* the bus transactions of one call that may be the one to fail
MaxFail == 5

\* the environments of a call that issues up to n bus transactions; the build's
\* overflow checks are drawn only where a product overflows
Envs(n, overflows) ==
    {Env(0, FALSE, o) : o \in (IF overflows THEN BOOLEAN ELSE {FALSE})}
    \cup {Env(f, m, o) : f \in 1..n, m \in BOOLEAN,
                         o \in (IF overflows THEN BOOLEAN ELSE {FALSE})}

\* whether the products of from_current overflow u32 for this configuration
Overflows(config) ==
    \/ U32MulOverflows(config.scd_threshold, config.shunt)
    \/ U32MulOverflows(config.ocd_threshold, config.shunt)

(***************************************************************************)
(* Spec: a session and its device, under any sequence of calls             *)
(***************************************************************************)

\* what a call leaves: the result in ret, the session, the device and the bus log
Return(o, c) ==
    /\ bq' = o.bq
    /\ regs' = o.regs
    /\ bus' = o.bus
    /\ ret' = [kind |-> o.kind, err |-> o.err, val |-> o.val]
    /\ call' = c

\* a panic ends the program: no call follows it
Running == ret.kind # "Abort"

Init ==
    /\ bq \in {new(BQ76920, 8, 3, crc) : crc \in BOOLEAN}
    /\ regs \in {Device(t) : t \in Trims(NTrims)}
    /\ call = Call("new", <<>>, NoConfig, Env(0, FALSE, FALSE))
    /\ ret = [kind |-> "Ok", err |-> <<>>, val |-> 0]
    /\ bus = <<>>

init ==
    /\ Running
    /\ \E config \in Configs : \E env \in Envs(MaxFail, Overflows(config)) :
          Return(init_outcome(bq, regs, config, env), Call("init", <<>>, config, env))

current ==
    /\ Running
    /\ \E env \in Envs(1, FALSE) :
          Return(current_outcome(bq, regs, env), Call("current", <<>>, NoConfig, env))

cell_voltages ==
    /\ Running
    /\ \E env \in Envs(1, FALSE) :
          Return(cell_voltages_outcome(bq, regs, env),
                 Call("cell_voltages", <<>>, NoConfig, env))

Next == init \/ current \/ cell_voltages

Spec == Init /\ [][Next]_vars

(***************************************************************************)
(* SpecControl: a session and a device whose control registers hold any of *)
(* a few contents, under any sequence of control operations and inits      *)
(***************************************************************************)

\* what SYS_CTRL1 (0x04) and SYS_CTRL2 (0x05) hold at the start
ControlStarts == {165}

\* the bus transactions of init that may be the one to fail in SpecControl
MaxControlFail == 5

\* the environments of a control operation of up to n bus transactions: none fails,
\* or the f-th fails without having moved its bytes
ControlEnvs(n) == {Env(f, FALSE, FALSE) : f \in 0..n}

InitControl ==
    /\ bq \in {new(BQ76920, 8, 3, crc) : crc \in BOOLEAN}
    /\ regs \in {[Device(TrimList[1]) EXCEPT ![4] = v, ![5] = v] : v \in ControlStarts}
    /\ call = Call("new", <<>>, NoConfig, Env(0, FALSE, FALSE))
    /\ ret = [kind |-> "Ok", err |-> <<>>, val |-> 0]
    /\ bus = <<>>

discharge ==
    /\ Running
    /\ \E enable \in BOOLEAN, env \in ControlEnvs(2) :
          Return(discharge_outcome(bq, regs, enable, env),
                 Call("discharge", <<enable>>, NoConfig, env))

charge ==
    /\ Running
    /\ \E enable \in BOOLEAN, env \in ControlEnvs(2) :
          Return(charge_outcome(bq, regs, enable, env),
                 Call("charge", <<enable>>, NoConfig, env))

enable_adc ==
    /\ Running
    /\ \E enable \in BOOLEAN, env \in ControlEnvs(2) :
          Return(enable_adc_outcome(bq, regs, enable, env),
                 Call("enable_adc", <<enable>>, NoConfig, env))

set_temperature_source ==
    /\ Running
    /\ \E source \in TemperatureSource, env \in ControlEnvs(2) :
          Return(set_temperature_source_outcome(bq, regs, source, env),
                 Call("set_temperature_source", <<source>>, NoConfig, env))

temperature_source ==
    /\ Running
    /\ \E env \in ControlEnvs(1) :
          Return(temperature_source_outcome(bq, regs, env, 1),
                 Call("temperature_source", <<>>, NoConfig, env))

temperature ==
    /\ Running
    /\ \E env \in ControlEnvs(2) :
          Return(temperature_outcome(bq, regs, env),
                 Call("temperature", <<>>, NoConfig, env))

coulomb_counter_mode ==
    /\ Running
    /\ \E mode \in CoulombCounterMode, env \in ControlEnvs(2) :
          Return(coulomb_counter_mode_outcome(bq, regs, mode, env),
                 Call("coulomb_counter_mode", <<mode>>, NoConfig, env))

\* init with the configuration of tests::it_works
init_control ==
    /\ Running
    /\ \E env \in ControlEnvs(MaxControlFail) :
          Return(init_outcome(bq, regs, ConfigList[1], env),
                 Call("init", <<>>, ConfigList[1], env))

NextControl ==
    \/ discharge \/ charge \/ enable_adc \/ set_temperature_source
    \/ temperature_source \/ temperature \/ coulomb_counter_mode \/ init_control

SpecControl == InitControl /\ [][NextControl]_vars

(***************************************************************************)
(* SpecDrawn: one call, drawn with its inputs by the initial state, on a   *)
(* new session                                                             *)
(***************************************************************************)

NotCalled == [kind |-> "none", err |-> <<>>, val |-> 0]

\* the largest current from_current is drawn with, beside the three large ones
MaxAmps == 300

DrawnAmps == (0..MaxAmps) \cup {65536, 70000, 2147483647}

DrawnShunts == {0, 1, 500, 667, 1000, 2000, 70000}

\* the span of the UV targets and of the OV targets init is drawn with: they reach
\* over both ends of the achievable window of every calibration
UvFrom == 1300
UvTo == 3400
OvFrom == 2800
OvTo == 5050

FromMvCalls ==
    {Call(op, <<mv>>, NoConfig, Env(0, FALSE, FALSE)) :
        op \in {"SCDThreshold_from_mv", "OCDThreshold_from_mv"}, mv \in 0..255}

FromCurrentCalls ==
    UNION {{Call(op, <<a, sh>>, NoConfig, Env(0, FALSE, o)) :
                op \in {"SCDThreshold_from_current", "OCDThreshold_from_current"},
                o \in (IF U32MulOverflows(a, sh) THEN BOOLEAN ELSE {FALSE})} :
           a \in DrawnAmps, sh \in DrawnShunts}

\* every pair of an SCD and an OCD threshold (the shunt of 1000 microohms makes the
\* drop in mV the current in A), with an OV target inside and one outside the window
PairConfigs ==
    {Config(1000, scd, ocd, 2000, ov) :
        scd \in SCDThreshold, ocd \in OCDThreshold, ov \in {4175, 5000}}

\* the thresholds of tests::it_works with every UV target, and with every OV target
VoltConfigs ==
    {Config(667, 200, 100, uv, 4175) : uv \in UvFrom..UvTo}
    \cup {Config(667, 200, 100, 2000, ov) : ov \in OvFrom..OvTo}
    \cup {Config(667, 200, 100, uv, 5000) : uv \in {1000, 2000}}

\* an environment whose tx-th transaction answers with byte `at` corrupted by mask
EnvFlip(fail, moved, tx, at, mask) ==
    [fail |-> fail, moved |-> moved, overflow_checks |-> FALSE,
     flip |-> [tx |-> tx, at |-> at, mask |-> mask]]

\* the least cell count of a variant
MinCells(X) == IF X = BQ76920 THEN 3 ELSE IF X = BQ76930 THEN 6 ELSE 9

Variants == {BQ76920, BQ76930, BQ76940}

\* the lengths read_raw is drawn with on variant X: the short ones and those about
\* the largest payload of the variant
ReadLens(X) == {0, 1, 2, 3, 2 * X - 1, 2 * X, 2 * X + 1}

\* the masks a byte of an answer is corrupted with
FlipMasks == {1, 128, 255}

\* the content of the caller's buffer before a read
Filled(n) == [i \in 1..n |-> 238]

\* the reads drawn on variant X in checksum mode (crc) or plain mode: the bus may fail,
\* and any one byte of the answer may arrive corrupted
ReadCalls(X, crc) ==
    UNION {{Call("read_raw", <<reg, n>>, NoConfig, env) :
                env \in {Env(0, FALSE, FALSE), Env(1, FALSE, FALSE), Env(1, TRUE, FALSE)}
                        \cup {EnvFlip(0, FALSE, 1, at, mask) :
                                at \in 1..(IF crc THEN 2 * n ELSE n), mask \in FlipMasks}} :
           reg \in {4, 12}, n \in ReadLens(X)}

\* the payloads write_raw is drawn with: of 0 to MaxWrite bytes
MaxWrite == 9

WritePayloads ==
    {[i \in 1..n |-> (IF i % 2 = 1 THEN first ELSE 255 - first + i) % 256] :
        n \in 0..MaxWrite, first \in {0, 165, 255}}

WriteCalls ==
    {Call("write_raw", <<reg, data>>, NoConfig, env) :
        reg \in {0, 6}, data \in WritePayloads,
        env \in {Env(0, FALSE, FALSE), Env(1, FALSE, FALSE), Env(1, TRUE, FALSE)}}

\* the variant parameters and the cell counts new is drawn with
MaxChannels == 16

NewCells == (0..MaxChannels) \cup {255}

NewCalls ==
    {Call("new", <<X, cell_count, crc>>, NoConfig, Env(0, FALSE, FALSE)) :
        X \in 0..MaxChannels, cell_count \in NewCells, crc \in BOOLEAN}

\* the sessions new returns: every variant with every cell count of its range
Sessions(crc) ==
    {new(X, 8, cell_count, crc) : X \in Variants, cell_count \in 3..15} \ {None}

\* the device after its ADC has sampled the cells again: other readings in the cell block
Resampled(r) ==
    [a \in DOMAIN r |-> IF a \in 12..41 /\ a % 2 = 1 THEN (r[a] + 7) % 256 ELSE r[a]]

\* a session that init (with the configuration of tests::it_works) and then
\* cell_voltages have succeeded on, so that its cache holds the cells read then
Measured(s) ==
    CHOOSE m \in {cell_voltages_outcome(i.bq, i.regs, Env(0, FALSE, FALSE)) :
                    i \in {init_outcome(s, Device(TrimList[1]), ConfigList[1],
                                        Env(0, FALSE, FALSE))}} : TRUE

\* the environments cell_voltages is drawn with: the read succeeds or fails, or, in
\* CRC mode, where the session can tell, answers with a corrupted byte
CellEnvs(crc) ==
    {Env(0, FALSE, FALSE), Env(1, FALSE, FALSE), Env(1, TRUE, FALSE)}
    \cup (IF crc THEN {EnvFlip(0, FALSE, 1, 2, 1)} ELSE {})

\* a session s and a device r, about to serve the call c
DrawnOn(s, r, c) ==
    /\ bq = s
    /\ regs = r
    /\ call = c
    /\ ret = NotCalled
    /\ bus = <<>>

\* a new session and a device after power-up, about to serve the call c
Drawn(use_crc, trim, c) ==
    /\ bq = new(BQ76920, 8, 3, use_crc)
    /\ regs = Device(trim)
    /\ call = c
    /\ ret = NotCalled
    /\ bus = <<>>

InitDrawn ==
    \/ \E c \in FromMvCalls \cup FromCurrentCalls : Drawn(FALSE, TrimList[1], c)
    \/ \E use_crc \in BOOLEAN, config \in PairConfigs :
          Drawn(use_crc, TrimList[1], Call("init", <<>>, config, Env(0, FALSE, FALSE)))
    \/ \E t \in Trims(NDrawnTrims), config \in VoltConfigs :
          Drawn(FALSE, t, Call("init", <<>>, config, Env(0, FALSE, FALSE)))
    \/ \E c \in NewCalls : DrawnOn(None, Device(TrimList[1]), c)
    \/ \E crc \in BOOLEAN : \E env \in CellEnvs(crc), s \in Sessions(crc) :
          \/ \E m \in {Measured(s)} :
                DrawnOn(m.bq, Resampled(m.regs), Call("cell_voltages", <<>>, NoConfig, env))
          \/ DrawnOn(s, Device(TrimList[1]), Call("cell_voltages", <<>>, NoConfig, env))
    \/ \E X \in Variants, crc \in BOOLEAN, dev_address \in {8, 24} :
          \E c \in ReadCalls(X, crc) \cup WriteCalls :
             DrawnOn(new(X, dev_address, MinCells(X), crc), Device(TrimList[1]), c)

\* a call of a function of no session: only its result is left
Result(kind, err, val) ==
    /\ ret' = [kind |-> kind, err |-> err, val |-> val]
    /\ UNCHANGED <<bq, regs, call, bus>>

\* what from_current leaves, t being the threshold of the wrapped product: the
\* multiplication panics first where the build checks overflow
FromCurrentResult(t) ==
    IF call.env.overflow_checks /\ U32MulOverflows(call.args[1], call.args[2])
    THEN Result("Abort", <<"Overflow">>, 0)
    ELSE IF t = Unreachable THEN Result("Abort", <<"Unreachable">>, 0)
    ELSE Result("Ok", <<>>, t)

scd_from_mv ==
    /\ ret = NotCalled /\ call.op = "SCDThreshold_from_mv"
    /\ LET t == SCDThreshold_from_mv(call.args[1])
       IN  IF t = Unreachable THEN Result("Abort", <<"Unreachable">>, 0)
           ELSE Result("Ok", <<>>, t)

ocd_from_mv ==
    /\ ret = NotCalled /\ call.op = "OCDThreshold_from_mv"
    /\ LET t == OCDThreshold_from_mv(call.args[1])
       IN  IF t = Unreachable THEN Result("Abort", <<"Unreachable">>, 0)
           ELSE Result("Ok", <<>>, t)

scd_from_current ==
    /\ ret = NotCalled /\ call.op = "SCDThreshold_from_current"
    /\ FromCurrentResult(SCDThreshold_from_current(call.args[1], call.args[2]))

ocd_from_current ==
    /\ ret = NotCalled /\ call.op = "OCDThreshold_from_current"
    /\ FromCurrentResult(OCDThreshold_from_current(call.args[1], call.args[2]))

init_drawn ==
    /\ ret = NotCalled /\ call.op = "init"
    /\ Return(init_outcome(bq, regs, call.cfg, call.env), call)

\* read_raw into a buffer of call.args[2] bytes: ret.val is the buffer after the call
read_raw_drawn ==
    /\ ret = NotCalled /\ call.op = "read_raw"
    /\ LET rd == read_raw(bq, regs, call.args[1], call.args[2], BusEnv(call.env, 1))
       IN  /\ ret' = [kind |-> IF rd.res = "Ok" THEN "Ok" ELSE "Err",
                      err |-> IF rd.res = "Ok" THEN <<>> ELSE <<rd.res>>,
                      val |-> IF rd.data = <<>> THEN Filled(call.args[2]) ELSE rd.data]
           /\ bus' = rd.bus
           /\ UNCHANGED <<bq, regs, call>>

\* write_raw of the payload call.args[2]
write_raw_drawn ==
    /\ ret = NotCalled /\ call.op = "write_raw"
    /\ LET w == write_raw(bq, regs, call.args[1], call.args[2], BusEnv(call.env, 1))
       IN  /\ ret' = [kind |-> IF w.res = "Ok" THEN "Ok" ELSE "Err",
                      err |-> IF w.res = "Ok" THEN <<>> ELSE <<w.res>>,
                      val |-> 0]
           /\ regs' = w.regs
           /\ bus' = w.bus
           /\ UNCHANGED <<bq, call>>

\* BQ769x0::<X>::new(8, cell_count, use_crc): ret.val tells Some from None
new_drawn ==
    /\ ret = NotCalled /\ call.op = "new"
    /\ bq' = new(call.args[1], 8, call.args[2], call.args[3])
    /\ ret' = [kind |-> "Ok", err |-> <<>>, val |-> IF bq' = None THEN "None" ELSE "Some"]
    /\ UNCHANGED <<regs, call, bus>>

cell_voltages_drawn ==
    /\ ret = NotCalled /\ call.op = "cell_voltages"
    /\ Return(cell_voltages_outcome(bq, regs, call.env), call)

NextDrawn ==
    \/ new_drawn \/ cell_voltages_drawn
    \/ scd_from_mv \/ ocd_from_mv \/ scd_from_current \/ ocd_from_current \/ init_drawn
    \/ read_raw_drawn \/ write_raw_drawn

SpecDrawn == InitDrawn /\ [][NextDrawn]_vars

(***************************************************************************)
(* Properties                                                              *)
(***************************************************************************)

\* the name of the error a call returned, "" when it returned none
ErrName(r) == IF r.err = <<>> THEN "" ELSE r.err[1]

\* the call issued no write on the bus
NoBusWrite(b) == \A i \in DOMAIN b : b[i].op # "write"

Abs(x) == IF x < 0 THEN -x ELSE x

\* the errors of init that its validation returns: they precede the first write
ValidationErrors ==
    {"OCDSCDRangeMismatch", "OVThresholdUnobtainable", "UVThresholdUnobtainable"}

\* C1 (as amended): when init returns OCDSCDRangeMismatch, OVThresholdUnobtainable
\* or UVThresholdUnobtainable, or an error of the trim reads, the call has issued no
\* write on the bus and the registers of the device are as they were before the call.
C1_ValidationErrorsWriteNothing ==
    [][(/\ call'.op = "init"
        /\ ret'.kind = "Err"
        /\ \/ ErrName(ret') \in ValidationErrors
           \/ ret'.val.stage = "read_adc_characteristics")
       => (NoBusWrite(bus') /\ regs' = regs)]_vars

\* C1, a case of it: a configured device is offered a configuration whose UV target is
\* out of the window; init returns the error and the registers keep the configuration
C1_Witness ==
    /\ call.op = "init"
    /\ ErrName(ret) = "UVThresholdUnobtainable"
    /\ bq.init_complete
    /\ regs[6] # 0
    /\ NoBusWrite(bus)

\* C1 as stated: whenever init returns an error, of any kind, the call has issued no
\* write and the registers are as before the call.
C1_AnyErrorWritesNothing ==
    [][(call'.op = "init" /\ ret'.kind = "Err")
       => (NoBusWrite(bus') /\ regs' = regs)]_vars

\* C2 as stated: on a session no init has succeeded on, cell_voltages and current
\* return Error::Uninitialized, and neither abort nor return a value (here on a bus
\* that fails no transaction).
C2_UninitializedBeforeInit ==
    (/\ call.op \in {"current", "cell_voltages"}
     /\ ~bq.init_complete
     /\ call.env.fail = 0)
    => (ret.kind = "Err" /\ ret.err = <<"Uninitialized">>)

\* the thresholds that are in one range's table only
SCDLowerOnly == (DOMAIN SCDLowerBits) \ (DOMAIN SCDUpperBits)
SCDUpperOnly == (DOMAIN SCDUpperBits) \ (DOMAIN SCDLowerBits)
OCDLowerOnly == (DOMAIN OCDLowerBits) \ (DOMAIN OCDUpperBits)
OCDUpperOnly == (DOMAIN OCDUpperBits) \ (DOMAIN OCDLowerBits)

\* the range a threshold classifies as, from the two tables
RangeClass(t, lower, upper) ==
    IF t \in lower /\ t \in upper THEN "Unknown"
    ELSE IF t \in upper THEN "Upper" ELSE "Lower"

\* init went past the trim reads and the encoding of the two thresholds
PastEncoding ==
    /\ call.op = "init"
    /\ ret.kind \in {"Ok", "Err"}
    /\ ret.val.stage # "read_adc_characteristics"

\* C3: given successful trim reads, init returns OCDSCDRangeMismatch exactly when one
\* of the encoded SCD and OCD thresholds classifies as Lower and the other as Upper,
\* and then it has come to no UV/OV check and has issued no write on the bus.
C3_RangeMismatchExactly ==
    PastEncoding =>
        LET mixed == \/ (ret.val.scd_mv \in SCDLowerOnly /\ ret.val.ocd_mv \in OCDUpperOnly)
                     \/ (ret.val.scd_mv \in SCDUpperOnly /\ ret.val.ocd_mv \in OCDLowerOnly)
        IN  /\ (ret.err = <<"OCDSCDRangeMismatch">>) <=> mixed
            /\ mixed => /\ ret.kind = "Err"
                        /\ ret.val.stage = "ranges"
                        /\ NoBusWrite(bus)
                        /\ ~bq.init_complete

\* C3, a case of it: an Upper-only SCD threshold with a Lower-only OCD threshold and an
\* OV target out of the window: the mismatch is what init returns
C3_Witness ==
    /\ PastEncoding
    /\ ret.val.scd_mv \in SCDUpperOnly /\ ret.val.ocd_mv \in OCDLowerOnly
    /\ call.cfg.ov_threshold = 5000
    /\ ret.err = <<"OCDSCDRangeMismatch">>

\* C4: for a pair of thresholds that is no Lower/Upper mismatch the range init commits
\* is Lower or Upper: that of the threshold that is not Unknown, Lower when both are,
\* the common one when they agree; both thresholds are in that range's table, the
\* codes in PROTECT1[2:0] and PROTECT2[3:0] are theirs in it, and PROTECT1 bit 7 is
\* the range.
C4_ResolvedRangeAndCodes ==
    (PastEncoding /\ ret.val.stage # "ranges") =>
        LET scd == ret.val.scd_mv
            ocd == ret.val.ocd_mv
            sr == RangeClass(scd, DOMAIN SCDLowerBits, DOMAIN SCDUpperBits)
            or == RangeClass(ocd, DOMAIN OCDLowerBits, DOMAIN OCDUpperBits)
            range == ret.val.range_to_use
            scdCodes == IF range = "Upper" THEN SCDUpperBits ELSE SCDLowerBits
            ocdCodes == IF range = "Upper" THEN OCDUpperBits ELSE OCDLowerBits
        IN  /\ range \in {"Lower", "Upper"}
            /\ sr # "Unknown" => range = sr
            /\ or # "Unknown" => range = or
            /\ (sr = "Unknown" /\ or = "Unknown") => range = "Lower"
            /\ scd \in DOMAIN scdCodes
            /\ ocd \in DOMAIN ocdCodes
            /\ ret.kind = "Ok" =>
                /\ regs[6] % 8 = scdCodes[scd]
                /\ regs[7] % 16 = ocdCodes[ocd]
                /\ regs[6] \div 128 = (IF range = "Upper" THEN 1 ELSE 0)
                /\ ret.val.calc.ocdscd_range_used = range

\* C4, a case of it: an SCD threshold of both tables with an Upper-only OCD threshold
\* is committed in the Upper range, with the SCD threshold's Upper code
C4_Witness ==
    /\ PastEncoding /\ ret.kind = "Ok"
    /\ ret.val.scd_mv = 67 /\ ret.val.ocd_mv \in OCDUpperOnly
    /\ ret.val.range_to_use = "Upper"
    /\ regs[6] % 8 = 1 /\ regs[6] \div 128 = 1

FromCurrentOps == {"SCDThreshold_from_current", "OCDThreshold_from_current"}

\* C5 as stated: for every requested current and every non-zero shunt the threshold
\* from_current selects stands for a trip current, selected_mV * 1000 / shunt, that
\* is at or below the requested one.
C5_TripAtOrBelowRequested ==
    (/\ call.op \in FromCurrentOps
     /\ ret.kind = "Ok"
     /\ call.args[2] # 0)
    => (ret.val * 1000) \div call.args[2] <= call.args[1]

\* C6 as stated: a computed drop amps * micro_ohms / 1000 below the table's minimum
\* gives the minimum entry and one above its maximum gives the maximum entry, drops
\* of 256 mV and more included (here for currents up to MaxAmps and shunts up to
\* 2000 microohms, whose product overflows nothing).
C6_ClampsToTableEnds ==
    (/\ call.op \in FromCurrentOps
     /\ ret.kind = "Ok"
     /\ call.args[1] <= MaxAmps /\ call.args[2] <= 2000)
    => LET drop == (call.args[1] * call.args[2]) \div 1000
           lowest == IF call.op = "SCDThreshold_from_current" THEN 22 ELSE 8
           highest == IF call.op = "SCDThreshold_from_current" THEN 200 ELSE 100
       IN  /\ drop < lowest => ret.val = lowest
           /\ drop > highest => ret.val = highest

\* C7: for mv in the span of the table (22..200 for SCD, 8..100 for OCD) from_mv
\* returns the least entry of the table that is not below mv: an entry of the table,
\* and mv itself when mv is one.
C7_FromMvLeastNotBelow ==
    /\ (call.op = "SCDThreshold_from_mv" /\ ret # NotCalled
        /\ call.args[1] >= 22 /\ call.args[1] <= 200)
       => /\ ret.kind = "Ok"
          /\ ret.val \in SCDThreshold
          /\ ret.val >= call.args[1]
          /\ \A t \in SCDThreshold : t >= call.args[1] => ret.val <= t
          /\ call.args[1] \in SCDThreshold => ret.val = call.args[1]
    /\ (call.op = "OCDThreshold_from_mv" /\ ret # NotCalled
        /\ call.args[1] >= 8 /\ call.args[1] <= 100)
       => /\ ret.kind = "Ok"
          /\ ret.val \in OCDThreshold
          /\ ret.val >= call.args[1]
          /\ \A t \in OCDThreshold : t >= call.args[1] => ret.val <= t
          /\ call.args[1] \in OCDThreshold => ret.val = call.args[1]

\* C7, a case of it: an entry is returned unchanged
C7_Witness ==
    /\ call.op = "SCDThreshold_from_mv" /\ ret.kind = "Ok"
    /\ call.args[1] = 133 /\ ret.val = 133

\* C8 as stated, at the lower end point of the UV window: the uv_threshold init
\* returns differs from the requested target by at most gain/1000 mV.
C8_RoundTripWithinOneStep ==
    (/\ call.op = "init" /\ ret.kind = "Ok"
     /\ call.cfg.uv_threshold = ret.val.uv_limits[1])
    => Abs(ret.val.calc.uv_threshold - call.cfg.uv_threshold) * 1000 <= bq.adc_gain

\* AdcTransferFunction::apply of a code, for the calibration of the session
WindowEnd(code) == (code * bq.adc_gain + bq.adc_offset * 1000) \div 1000

\* C9: given reconciled ranges, init returns OVThresholdUnobtainable(min, max) exactly
\* when the OV target is outside [apply(8200), apply(12280)], and otherwise
\* UVThresholdUnobtainable(min, max) exactly when the UV target is outside
\* [apply(4096), apply(8176)]; min and max are those values for the calibration just
\* read, and min <= max.
C9_UnobtainableExactlyOutside ==
    (PastEncoding /\ ret.val.stage # "ranges") =>
        LET ovOut == \/ call.cfg.ov_threshold < WindowEnd(8200)
                     \/ call.cfg.ov_threshold > WindowEnd(12280)
            uvOut == \/ call.cfg.uv_threshold < WindowEnd(4096)
                     \/ call.cfg.uv_threshold > WindowEnd(8176)
        IN  /\ (ErrName(ret) = "OVThresholdUnobtainable") <=> ovOut
            /\ (ErrName(ret) = "UVThresholdUnobtainable") <=> (~ovOut /\ uvOut)
            /\ ovOut => ret.err = <<"OVThresholdUnobtainable",
                                    WindowEnd(8200), WindowEnd(12280)>>
            /\ (~ovOut /\ uvOut) => ret.err = <<"UVThresholdUnobtainable",
                                                WindowEnd(4096), WindowEnd(8176)>>
            /\ ErrName(ret) \in {"OVThresholdUnobtainable", "UVThresholdUnobtainable"}
               => ret.err[2] <= ret.err[3]
            /\ bq.adc_gain = 365 + 8 * ((regs[80] \div 4) % 4) + regs[89] \div 32
            /\ bq.adc_offset = AsI8(regs[81])

\* C9, a case of it: a UV target one above the window, with the OV target inside
C9_Witness ==
    /\ PastEncoding
    /\ ErrName(ret) = "UVThresholdUnobtainable"
    /\ call.cfg.uv_threshold = ret.err[3] + 1
    /\ ret.err[2] < ret.err[3]

\* C10 as stated: a call one of whose bus transactions failed at the transport level
\* returns Error::I2CError, in checksum mode as in plain mode, and CRCMismatch is
\* returned only when every transaction of the call succeeded.
C10_TransportFailureIsI2CError ==
    /\ (\E i \in DOMAIN bus : ~bus[i].ok) => (ret.kind = "Err" /\ ret.err = <<"I2CError">>)
    /\ ErrName(ret) = "CRCMismatch" => \A i \in DOMAIN bus : bus[i].ok

\* the frame of a checksum-mode read is well formed: the first checksum is over
\* [(dev_address << 1) | 1, value0], every later one over its own value byte
FrameValid(frame, dev_address) ==
    /\ frame[2] = Crc8(<<(dev_address * 2 + 1) % 256, frame[1]>>)
    /\ \A i \in 2..(Len(frame) \div 2) : frame[2 * i] = Crc8(<<frame[2 * i - 1]>>)

\* the frame a drawn read receives
ReceivedFrame ==
    BufAfter(DevReadCrc(regs, bq.dev_address, call.args[1], call.args[2]),
             BusEnv(call.env, 1))

\* C11: in checksum mode a read of n bytes (1 <= n <= 2X) requests 2n bytes in one
\* write_read; it succeeds only if every checksum of the frame received matches (the
\* first over [(dev_address << 1) | 1, value0], the later ones over their own value),
\* then returning the value bytes; and when one byte of the frame arrived corrupted it
\* returns CRCMismatch with the caller's buffer as it was.
C11_FramedReadAllOrNothing ==
    (/\ call.op = "read_raw" /\ ret # NotCalled /\ bq.use_crc
     /\ call.args[2] >= 1 /\ call.args[2] <= 2 * bq.X)
    => /\ Len(bus) = 1
       /\ bus[1].op = "write_read" /\ bus[1].reg = call.args[1]
       /\ bus[1].len = 2 * call.args[2]
       /\ ret.kind = "Ok" =>
            /\ FrameValid(ReceivedFrame, bq.dev_address)
            /\ ret.val = [i \in 1..call.args[2] |-> ReceivedFrame[2 * i - 1]]
       /\ ret.kind # "Ok" => ret.val = Filled(call.args[2])
       /\ ("flip" \in DOMAIN call.env /\ call.env.fail = 0)
            => (ret.err = <<"CRCMismatch">> /\ ret.val = Filled(call.args[2]))

\* C11, a case of it: the last checksum byte of a full-length read on the 15-channel
\* variant arrives with one bit inverted
C11_Witness ==
    /\ call.op = "read_raw" /\ bq.use_crc /\ bq.X = BQ76940
    /\ call.args[2] = 30
    /\ "flip" \in DOMAIN call.env /\ call.env.flip.at = 60 /\ call.env.flip.mask = 1
    /\ ret.err = <<"CRCMismatch">>
    /\ ret.val = Filled(30)

\* the frame of a checksum-mode write of data to reg_address
WriteFrame(dev_address, reg_address, data) ==
    [j \in 1..(2 * Len(data) + 1) |->
        IF j = 1 THEN reg_address
        ELSE IF j % 2 = 0 THEN data[j \div 2]
        ELSE IF j = 3 THEN Crc8(<<(dev_address * 2) % 256, reg_address, data[1]>>)
        ELSE Crc8(<<data[(j - 1) \div 2]>>)]

\* C12: a write of n payload bytes (1 <= n <= 8) is one bus write: in checksum mode of
\* the 2n+1 bytes [register_address, byte0, crc0, byte1, crc1, ...], crc0 over
\* [dev_address << 1, register_address, byte0] and crc_i over [byte_i]; in plain mode
\* of the n+1 bytes [register_address, byte0, ...].
C12_WriteFrame ==
    (/\ call.op = "write_raw" /\ ret # NotCalled
     /\ Len(call.args[2]) >= 1 /\ Len(call.args[2]) <= 8)
    => /\ Len(bus) = 1
       /\ bus[1].op = "write"
       /\ bq.use_crc =>
            /\ Len(bus[1].bytes) = 2 * Len(call.args[2]) + 1
            /\ bus[1].bytes = WriteFrame(bq.dev_address, call.args[1], call.args[2])
       /\ ~bq.use_crc =>
            /\ Len(bus[1].bytes) = Len(call.args[2]) + 1
            /\ bus[1].bytes = <<call.args[1]>> \o call.args[2]

\* C12, a case of it: a write of 8 bytes in checksum mode goes out as 17 bytes
C12_Witness ==
    /\ call.op = "write_raw" /\ ret.kind = "Ok" /\ bq.use_crc
    /\ Len(call.args[2]) = 8
    /\ Len(bus) = 1 /\ Len(bus[1].bytes) = 17
    /\ regs[6] = call.args[2][1]

\* C13 as stated: in both checksum modes a zero-length read or write returns success
\* and a write of more than 8 bytes or a read of more than 2 bytes per channel of the
\* variant returns BufTooLarge, each without a bus transaction.
C13_BoundsBeforeBus ==
    /\ (call.op = "read_raw" /\ ret # NotCalled /\ call.args[2] = 0)
       => (ret.kind = "Ok" /\ bus = <<>>)
    /\ (call.op = "read_raw" /\ ret # NotCalled /\ call.args[2] > 2 * bq.X)
       => (ret.err = <<"BufTooLarge">> /\ bus = <<>>)
    /\ (call.op = "write_raw" /\ ret # NotCalled /\ Len(call.args[2]) = 0)
       => (ret.kind = "Ok" /\ bus = <<>>)
    /\ (call.op = "write_raw" /\ ret # NotCalled /\ Len(call.args[2]) > 8)
       => (ret.err = <<"BufTooLarge">> /\ bus = <<>>)

\* the operations that set bits of a control register by read-modify-write
ToggleOps ==
    {"discharge", "charge", "enable_adc", "set_temperature_source", "coulomb_counter_mode"}

\* the control register an operation rewrites, and the bits of it that are its own
OwnReg(op) == IF op \in {"enable_adc", "set_temperature_source"} THEN 4 ELSE 5

OwnBits(op) ==
    CASE op = "discharge" -> 2
      [] op = "charge" -> 1
      [] op = "coulomb_counter_mode" -> 96
      [] op = "init" -> 64
      [] op = "enable_adc" -> 16
      [] op = "set_temperature_source" -> 8

\* the bits of a byte that are not in mask
Others(byte, mask) == And8(byte, 255 - mask)

\* the value a successful call leaves in its own bits
Requested(c) ==
    CASE c.op \in {"discharge", "charge", "enable_adc"} ->
            (IF c.args[1] THEN OwnBits(c.op) ELSE 0)
      [] c.op = "set_temperature_source" ->
            (IF c.args[1] = "ExternalThermistor" THEN 8 ELSE 0)
      [] c.op = "coulomb_counter_mode" ->
            (CASE c.args[1] = "Disabled" -> 0
               [] c.args[1] = "OneShot" -> 32
               [] c.args[1] = "Continuous" -> 64)
      [] c.op = "init" -> 64

\* C14 as stated: a control-setting operation that has written its register reads it
\* back after the write (the read-back being the last transaction of the call).
C14_VerifyReadback ==
    (call.op \in ToggleOps /\ ~NoBusWrite(bus))
    => /\ bus[Len(bus)].op = "write_read"
       /\ bus[Len(bus)].reg = OwnReg(call.op)

\* C19: each read-modify-write control operation (and the coulomb-counter step of
\* init) writes its register back with only its own bits changed from what the register
\* held, leaving its own bits as requested when it succeeds; discharge and charge issue
\* no write when the bit already has the requested value, and no operation writes its
\* register when its read of it failed.
C19_OnlyOwnBitsChange ==
    [][(call'.op \in ToggleOps \cup {"init"})
       => LET op == call'.op
              reg == OwnReg(op)
              own == OwnBits(op)
              writes == {i \in DOMAIN bus' : bus'[i].op = "write" /\ bus'[i].reg = reg}
              last == bus'[Len(bus')]
          IN  /\ Others(regs'[reg], own) = Others(regs[reg], own)
              /\ regs'[9 - reg] = regs[9 - reg]
              /\ \A i \in writes :
                    /\ i > 1 /\ bus'[i - 1].op = "write_read" /\ bus'[i - 1].reg = reg
                    /\ Others(bus'[i].bytes[2], own) = Others(regs[reg], own)
                    /\ And8(bus'[i].bytes[2], own) = Requested(call')
              /\ ret'.kind = "Ok" => And8(regs'[reg], own) = Requested(call')
              /\ (op \in {"discharge", "charge"}
                  /\ And8(regs[reg], own) = Requested(call')) => writes = {}
              /\ (Len(bus') > 0 /\ last.op = "write_read" /\ last.reg = reg
                  /\ ret'.kind = "Err") => writes = {}]_vars

\* C19, a case of it: coulomb_counter_mode(OneShot) on a register with bit 6 and other
\* bits set leaves bit 5 alone of bits 6:5 set and the other bits as they were
C19_Witness ==
    /\ call.op = "coulomb_counter_mode" /\ call.args[1] = "OneShot" /\ ret.kind = "Ok"
    /\ bq.init_complete
    /\ And8(regs[5], 96) = 32
    /\ Others(regs[5], 99) = 132
    /\ ~NoBusWrite(bus)

\* C20 as stated: temperature_source returns ExternalThermistor exactly when bit 3 of
\* register 0x04 is set, and temperature returns the variant of that source.
C20_TemperatureSourceReadsBit3 ==
    /\ (call.op = "temperature_source" /\ ret.kind = "Ok")
       => (ret.val = "ExternalThermistor") <=> (And8(regs[4], 8) # 0)
    /\ (call.op = "temperature" /\ ret.kind = "Ok")
       => (ret.val.source = "ExternalThermistor") <=> (And8(regs[4], 8) # 0)

\* the channel whose reading slot i of a session of variant X with cc cells returns
SlotChannel(X, cc, i) ==
    CASE i = 2 /\ cc \in {3, 6, 9} -> 4
      [] i = 3 /\ cc \in {4, 7, 8, 10, 11, 12} -> 4
      [] i = 7 /\ X \in {10, 15} /\ cc \in {6, 7, 9, 10} -> 9
      [] i = 8 /\ X \in {10, 15} /\ cc \in {8, 9, 11, 12, 13} -> 9
      [] i = 12 /\ X = 15 /\ cc \in {9, 10, 11} -> 14
      [] i = 13 /\ X = 15 /\ cc \in {12, 13, 14} -> 14
      [] OTHER -> i

\* the big-endian raw code of channel ch in the cell block of device r
RawCode(r, ch) == r[12 + 2 * ch] * 256 + r[13 + 2 * ch]

\* C15: a successful cell_voltages, on an initialized session, reads one block of 2*X
\* value bytes at register 0x0C and returns cell_count values, value i the transfer
\* function of the raw code of channel i or of the higher channel the variant's table
\* puts in slot i; the cache keeps X slots, and an error leaves it unchanged.
C15_CellVoltages ==
    [][(call'.op = "cell_voltages")
       => /\ DOMAIN bq'.cells = 0..(bq.X - 1)
          /\ bq'.cell_count = bq.cell_count
          /\ ret'.kind = "Ok" =>
               /\ bq.init_complete
               /\ Len(bus') = 1
               /\ bus'[1].op = "write_read" /\ bus'[1].reg = 12
               /\ bus'[1].len = (IF bq.use_crc THEN 4 ELSE 2) * bq.X
               /\ Len(ret'.val) = bq.cell_count
               /\ \A i \in 0..(bq.cell_count - 1) :
                     /\ ret'.val[i + 1] =
                           AdcTransferFunction_apply(bq.adc_gain, bq.adc_offset,
                               RawCode(regs, SlotChannel(bq.X, bq.cell_count, i)))
                     /\ bq'.cells[i] = ret'.val[i + 1]
          /\ ret'.kind # "Ok" => (ret'.kind = "Err" /\ bq'.cells = bq.cells)]_vars

\* C15, a case of it: 9 cells on the 15-channel variant: slot 2 returns channel 4 and
\* slots 7 and 8 both return channel 9
C15_Witness ==
    /\ call.op = "cell_voltages" /\ ret.kind = "Ok"
    /\ bq.X = BQ76940 /\ bq.cell_count = 9 /\ bq.use_crc
    /\ Len(ret.val) = 9
    /\ ret.val[3] = ret.val[5]
    /\ ret.val[8] = ret.val[9]
    /\ ret.val[8] = AdcTransferFunction_apply(bq.adc_gain, bq.adc_offset, RawCode(regs, 9))
    /\ ret.val[1] # ret.val[2]

\* a cell count the variant X supports
CellCountInRange(X, cell_count) ==
    \/ (X = 5 /\ cell_count >= 3 /\ cell_count <= 5)
    \/ (X = 10 /\ cell_count >= 6 /\ cell_count <= 10)
    \/ (X = 15 /\ cell_count >= 9 /\ cell_count <= 15)

\* C16: new returns a session exactly when X is 5, 10 or 15 and cell_count is in the
\* range of that variant (None otherwise), a new session being uninitialized with zero
\* gain, offset and shunt; and every operation leaves the variant and the cell count of
\* a session as they were, in that range and at most X.
C16_CellCountInRange ==
    [][/\ (call'.op = "new")
          => /\ (bq' # None) <=> CellCountInRange(call'.args[1], call'.args[2])
             /\ (ret'.val = "Some") <=> (bq' # None)
             /\ (bq' # None)
                => /\ bq'.X = call'.args[1] /\ bq'.cell_count = call'.args[2]
                   /\ ~is_initialized(bq')
                   /\ bq'.adc_gain = 0 /\ bq'.adc_offset = 0 /\ bq'.shunt = 0
       /\ (bq # None)
          => /\ bq' # None
             /\ bq'.X = bq.X /\ bq'.cell_count = bq.cell_count
             /\ CellCountInRange(bq'.X, bq'.cell_count)
             /\ bq'.cell_count <= bq'.X]_vars

\* C16, a case of it: the 15-channel variant with its least cell count
C16_Witness ==
    /\ call.op = "new" /\ ret.kind = "Ok" /\ ret.val = "Some"
    /\ call.args[1] = BQ76940 /\ call.args[2] = 9
    /\ bq.cell_count = 9 /\ ~bq.init_complete

\* C17 as stated: an init call that returns an error leaves the initialized flag and
\* the committed shunt resistance as they were before the call.
C17_FailedInitKeepsFlagAndShunt ==
    [][(call'.op = "init" /\ ret'.kind = "Err")
       => (bq'.init_complete = bq.init_complete /\ bq'.shunt = bq.shunt)]_vars

\* C18 as stated: init ends by returning Ok or an Error, and never aborts.
C18_InitNeverAborts ==
    call.op = "init" => ret.kind \in {"Ok", "Err"}

=============================================================================
